---- MODULE Spec2Model ----
(***************************************************************************)
(* The suite rules of rflint/rules/suiteRules.py as a state machine.       *)
(*                                                                         *)
(* A Python str is a sequence of one-character strings, so that lower(),   *)
(* replace(), the `in` substring test and the table-header regular         *)
(* expression are computed character by character.  Only ASCII text is     *)
(* modelled.                                                               *)
(***************************************************************************)
EXTENDS Integers, Sequences, FiniteSets, TLC

VARIABLES
    suite,        \* the parsed document handed to the rules (read-only)
    max_allowed,  \* TooManyTestCases.max_allowed
    findings,     \* what the rules reported during the current pass
    raised,       \* exception raised by the most recent call, or "none"
    applied,      \* rules whose apply was already called in this pass
    runs,         \* findings of the completed passes over the document
    cur,          \* argument of normalize_name
    keys          \* successive results of normalize_name

vars == <<suite, max_allowed, findings, raised, applied, runs, cur, keys>>

----------------------------------------------------------------------------
(* Bounds of the model *)

MaxNameLen == 3
MaxTables == 2
MaxRows == 2
MaxKeywords == 3
MaxTests == 3
MaxRuns == 2

----------------------------------------------------------------------------
(* Python str operations *)

UPPERCASE == <<"A", "B", "C", "D", "E", "F", "G", "H", "I", "J", "K", "L", "M", "N", "O", "P", "Q", "R", "S", "T", "U", "V", "W", "X", "Y", "Z">>
LOWERCASE == <<"a", "b", "c", "d", "e", "f", "g", "h", "i", "j", "k", "l", "m", "n", "o", "p", "q", "r", "s", "t", "u", "v", "w", "x", "y", "z">>
DIGITS == <<"0", "1", "2", "3", "4", "5", "6", "7", "8", "9">>

\* str.lower() on one character
lower_char(c) ==
    IF \E i \in 1..Len(UPPERCASE) : UPPERCASE[i] = c
    THEN LOWERCASE[CHOOSE i \in 1..Len(UPPERCASE) : UPPERCASE[i] = c]
    ELSE c

\* str.lower()
str_lower(s) == [i \in 1..Len(s) |-> lower_char(s[i])]

\* s.replace(ch, "") for a one-character ch
str_remove(s, ch) == SelectSeq(s, LAMBDA c : c # ch)

\* sub in s
str_contains(sub, s) ==
    \E i \in 0..(Len(s) - Len(sub)) : SubSeq(s, i + 1, i + Len(sub)) = sub

\* any(name in s.lower() for name in tokens)
any_token_in_lower(tokens, s) == \E name \in tokens : str_contains(name, str_lower(s))

\* the normalizer without lower()
normalize_name_keeps_case(string) == str_remove(str_remove(string, " "), "_")

\* convert to lowercase, remove spaces and underscores
normalize_name(string) == str_lower(str_remove(str_remove(string, " "), "_"))

----------------------------------------------------------------------------
(* The document model the rules read: suite.path, suite.name, suite.tables, *)
(* suite.keywords, suite.testcases; table.name, table.linenumber,           *)
(* table.rows; row[i], row.linenumber.  The parser that builds it is not    *)
(* part of the rules; a document is given by its shape and laid out on      *)
(* consecutive lines.                                                       *)

SeqsUpTo(S, n) == UNION {[1..k -> S] : k \in 0..n}

\* isinstance(table, SettingTable)
isSettingTable(table) == table.kind = "SettingTable"

TableShapes(kinds, names, rowPool, maxRows) ==
    [kind : kinds, name : names, rows : SeqsUpTo(rowPool, maxRows)]

RECURSIVE LinesBefore(_, _)
LinesBefore(shapes, i) ==
    IF i = 1 THEN 0 ELSE LinesBefore(shapes, i - 1) + 1 + Len(shapes[i - 1].rows)

LayoutTables(shapes) ==
    [i \in 1..Len(shapes) |->
        [kind       |-> shapes[i].kind,
         name       |-> shapes[i].name,
         linenumber |-> LinesBefore(shapes, i) + 1,
         rows       |-> [k \in 1..Len(shapes[i].rows) |->
                            [cells      |-> shapes[i].rows[k],
                             linenumber |-> LinesBefore(shapes, i) + 1 + k]]]]

LayoutNames(names, first) ==
    [i \in 1..Len(names) |-> [name |-> names[i], linenumber |-> first + 2 * (i - 1)]]

LayoutSuite(path, name, shapes, kwNames, tcNames) ==
    LET end == LinesBefore(shapes, Len(shapes) + 1) IN
    [path      |-> path,
     name      |-> name,
     tables    |-> LayoutTables(shapes),
     keywords  |-> LayoutNames(kwNames, end + 2),
     testcases |-> LayoutNames(tcNames, end + 2 + 2 * Len(kwNames) + 1)]

----------------------------------------------------------------------------
(* Reporting *)

NoName == <<>>
NoCounts == <<>>

Finding(rule, text, name, counts, linenumber) ==
    [rule |-> rule, text |-> text, name |-> name, counts |-> counts,
     linenumber |-> linenumber]

\* SuiteRule.report: append one finding to the results of the pass
report(acc, rule, text, name, counts, linenumber) ==
    Append(acc, Finding(rule, text, name, counts, linenumber))

Returned(acc) == [out |-> acc, raised |-> "none"]
Raised(acc, exc) == [out |-> acc, raised |-> exc]

\* the rows visited by `for table in suite.tables: if isinstance(table,
\* SettingTable): for row in table.rows`, in visiting order
RECURSIVE SettingRowsFrom(_, _)
SettingRowsFrom(tables, i) ==
    IF i > Len(tables) THEN <<>>
    ELSE (IF isSettingTable(tables[i]) THEN tables[i].rows ELSE <<>>)
         \o SettingRowsFrom(tables, i + 1)

SettingRows(s) == SettingRowsFrom(s.tables, 1)

\* seq[i] with Python's indexing: 0-based, negative indices count from the end
InIndexRange(seq, i) == -Len(seq) <= i /\ i < Len(seq)
PyItem(seq, i) == IF i >= 0 THEN seq[i + 1] ELSE seq[Len(seq) + i + 1]

----------------------------------------------------------------------------
(* RequiredRobotFileSuffxAndFolder *)

s_robot == <<".", "r", "o", "b", "o", "t">>
s_5GC == <<"5", "G", "C">>

RequiredRobotFileSuffxAndFolder_apply(s) ==
    LET r == "RequiredRobotFileSuffxAndFolder"
        a == IF ~str_contains(s_robot, s.path)
             THEN report(<<>>, r, "Required file suffix is \".robot\"", NoName, NoCounts, 0)
             ELSE <<>>
        b == IF ~str_contains(s_5GC, s.path)
             THEN report(a, r, "Required Parent folder is \"5GC*\"", NoName, NoCounts, 0)
             ELSE a
    IN Returned(b)

----------------------------------------------------------------------------
(* RequirdNoCurdirInImporting *)

s_Resource == <<"R", "e", "s", "o", "u", "r", "c", "e">>
s_CURDIR == <<"$", "{", "C", "U", "R", "D", "I", "R", "}">>

RECURSIVE CurdirWalk(_, _, _)
CurdirWalk(rows, i, acc) ==
    IF i > Len(rows) THEN Returned(acc)
    ELSE LET row == rows[i] IN
         IF ~InIndexRange(row.cells, 0) THEN Raised(acc, "IndexError")
         ELSE IF PyItem(row.cells, 0) # s_Resource THEN CurdirWalk(rows, i + 1, acc)
         ELSE IF ~InIndexRange(row.cells, 1) THEN Raised(acc, "IndexError")
         ELSE IF str_contains(s_CURDIR, PyItem(row.cells, 1))
              THEN CurdirWalk(rows, i + 1,
                       report(acc, "RequirdNoCurdirInImporting", "Don't use ${CURDIR}",
                              NoName, NoCounts, row.linenumber))
              ELSE CurdirWalk(rows, i + 1, acc)

RequirdNoCurdirInImporting_apply(s) == CurdirWalk(SettingRows(s), 1, <<>>)

----------------------------------------------------------------------------
(* RequiredAutherInfo *)

s_author == <<"a", "u", "t", "h", "o", "r">>
s_name == <<"n", "a", "m", "e">>
s_modified == <<"m", "o", "d", "i", "f", "i", "e", "d">>
s_contact == <<"c", "o", "n", "t", "a", "c", "t">>
s_mail == <<"m", "a", "i", "l">>
s_team == <<"t", "e", "a", "m">>

AuthorTokens == {s_author, s_name, s_modified}
ContactTokens == {s_contact, s_mail, s_team}

\* the flag a table's scan leaves: some cell of some row holds a token
TableFlag(table, tokens) ==
    \E k \in 1..Len(table.rows) : \E j \in 1..Len(table.rows[k].cells) :
        any_token_in_lower(tokens, table.rows[k].cells[j])

RECURSIVE AuthorWalk(_, _, _)
AuthorWalk(tables, i, acc) ==
    IF i > Len(tables) THEN acc
    ELSE IF ~isSettingTable(tables[i]) THEN AuthorWalk(tables, i + 1, acc)
    ELSE LET AuthorFlag == TableFlag(tables[i], AuthorTokens)
             ContactFlag == TableFlag(tables[i], ContactTokens)
             a == IF AuthorFlag = FALSE
                  THEN report(acc, "RequiredAutherInfo", "Author name is needed",
                              NoName, NoCounts, 1)
                  ELSE acc
             b == IF ContactFlag = FALSE
                  THEN report(a, "RequiredAutherInfo", "Contact list is needed",
                              NoName, NoCounts, 1)
                  ELSE a
         IN AuthorWalk(tables, i + 1, b)

RequiredAutherInfo_apply(s) == Returned(AuthorWalk(s.tables, 1, <<>>))

----------------------------------------------------------------------------
(* PeriodInSuiteName *)

PeriodInSuiteName_apply(s) ==
    Returned(IF str_contains(<<".">>, s.name)
             THEN report(<<>>, "PeriodInSuiteName", "'.' in suite name '%s'",
                         s.name, NoCounts, 0)
             ELSE <<>>)

----------------------------------------------------------------------------
(* InvalidTable *)

re_setting == <<"s", "e", "t", "t", "i", "n", "g">>
re_metadata == <<"m", "e", "t", "a", "d", "a", "t", "a">>
re_test_ == <<"t", "e", "s", "t", " ">>
re_case == <<"c", "a", "s", "e">>
re_user_ == <<"u", "s", "e", "r", " ">>
re_keyword == <<"k", "e", "y", "w", "o", "r", "d">>
re_variable == <<"v", "a", "r", "i", "a", "b", "l", "e">>

\* w followed by s?
OptionalS(w) == {w, w \o <<"s">>}

\* (prefix)? followed by one of the words of L
OptionalPrefix(prefix, L) == L \cup {prefix \o w : w \in L}

\* the strings ^(settings?|metadata|(test )?cases?|(user )?keywords?|variables?)$
\* matches when letter case is ignored, written in lower case
HeaderPattern ==
    OptionalS(re_setting) \cup {re_metadata}
    \cup OptionalPrefix(re_test_, OptionalS(re_case))
    \cup OptionalPrefix(re_user_, OptionalS(re_keyword))
    \cup OptionalS(re_variable)

\* the pattern without its closing $
re_match_prefix_only(name) ==
    \E n \in 0..Len(name) : str_lower(SubSeq(name, 1, n)) \in HeaderPattern

\* re.match(pattern, table.name, re.IGNORECASE); a table name is the text
\* of one header line and holds no line break
re_match(name) == str_lower(name) \in HeaderPattern

RECURSIVE InvalidTableWalk(_, _, _)
InvalidTableWalk(tables, i, acc) ==
    IF i > Len(tables) THEN acc
    ELSE IF ~re_match(tables[i].name)
         THEN InvalidTableWalk(tables, i + 1,
                  report(acc, "InvalidTable", "Unknown table name '%s'",
                         tables[i].name, NoCounts, tables[i].linenumber))
         ELSE InvalidTableWalk(tables, i + 1, acc)

InvalidTable_apply(s) == Returned(InvalidTableWalk(s.tables, 1, <<>>))

----------------------------------------------------------------------------
(* DuplicateKeywordNames, DuplicateTestNames *)

\* a comparison with the previous name only
InCache_last_only(name, cache) == cache # <<>> /\ cache[Len(cache)] = name

InCache(name, cache) == \E k \in 1..Len(cache) : cache[k] = name

RECURSIVE DuplicateWalk(_, _, _, _, _, _)
DuplicateWalk(items, i, cache, acc, rule, text) ==
    IF i > Len(items) THEN acc
    ELSE LET name == normalize_name(items[i].name) IN
         DuplicateWalk(items, i + 1, Append(cache, name),
             IF InCache(name, cache)
             THEN report(acc, rule, text, items[i].name, NoCounts, items[i].linenumber)
             ELSE acc,
             rule, text)

DuplicateKeywordNames_apply(s) ==
    Returned(DuplicateWalk(s.keywords, 1, <<>>, <<>>, "DuplicateKeywordNames",
                           "Duplicate keyword name '%s'"))

DuplicateTestNames_apply(s) ==
    Returned(DuplicateWalk(s.testcases, 1, <<>>, <<>>, "DuplicateTestNames",
                           "Duplicate testcase name '%s'"))

----------------------------------------------------------------------------
(* RequireSuiteDocumentation *)

s_documentation == <<"d", "o", "c", "u", "m", "e", "n", "t", "a", "t", "i", "o", "n">>
s_test_template == <<"t", "e", "s", "t", " ", "t", "e", "m", "p", "l", "a", "t", "e">>

\* the scan without lower()
RECURSIVE FirstCellScan_no_lower(_, _, _)
FirstCellScan_no_lower(rows, i, key) ==
    IF i > Len(rows) THEN "absent"
    ELSE IF ~InIndexRange(rows[i].cells, 0) THEN "IndexError"
    ELSE IF PyItem(rows[i].cells, 0) = key THEN "found"
    ELSE FirstCellScan_no_lower(rows, i + 1, key)

\* the scan `for row in ...: if row[0].lower() == key: return`:
\* "found", "absent", or "IndexError" at a row without cells
RECURSIVE FirstCellScan(_, _, _)
FirstCellScan(rows, i, key) ==
    IF i > Len(rows) THEN "absent"
    ELSE IF ~InIndexRange(rows[i].cells, 0) THEN "IndexError"
    ELSE IF str_lower(PyItem(rows[i].cells, 0)) = key THEN "found"
    ELSE FirstCellScan(rows, i + 1, key)

\* the loop without its break: the last settings table decides
RECURSIVE FirstSettingLine_no_break(_, _)
FirstSettingLine_no_break(tables, i) ==
    IF i > Len(tables) THEN 1
    ELSE IF isSettingTable(tables[i]) /\ \A j \in (i + 1)..Len(tables) : ~isSettingTable(tables[j])
         THEN tables[i].linenumber + 1
    ELSE FirstSettingLine_no_break(tables, i + 1)

\* linenum = 1; for table in suite.tables: if SettingTable: linenum =
\* table.linenumber + 1; break
RECURSIVE FirstSettingLine(_, _)
FirstSettingLine(tables, i) ==
    IF i > Len(tables) THEN 1
    ELSE IF isSettingTable(tables[i]) THEN tables[i].linenumber + 1
    ELSE FirstSettingLine(tables, i + 1)

RequireSuiteDocumentation_apply(s) ==
    LET scan == FirstCellScan(SettingRows(s), 1, s_documentation) IN
    IF scan = "IndexError" THEN Raised(<<>>, "IndexError")
    ELSE IF scan = "found" THEN Returned(<<>>)
    ELSE Returned(report(<<>>, "RequireSuiteDocumentation", "No suite documentation",
                         NoName, NoCounts, FirstSettingLine(s.tables, 1)))

----------------------------------------------------------------------------
(* TooManyTestCases *)

DefaultMaxAllowed == 10

TooManyTestCases_apply(s, max) ==
    LET scan == FirstCellScan(SettingRows(s), 1, s_test_template)
        testcases == s.testcases
    IN
    IF scan = "IndexError" THEN Raised(<<>>, "IndexError")
    ELSE IF scan = "found" THEN Returned(<<>>)
    ELSE IF Len(testcases) > max
         THEN IF ~InIndexRange(testcases, max) THEN Raised(<<>>, "IndexError")
              ELSE Returned(report(<<>>, "TooManyTestCases",
                                   "Too many test cases (%s > %s) in test suite",
                                   NoName, <<Len(testcases), max>>,
                                   PyItem(testcases, max).linenumber))
         ELSE Returned(<<>>)

\* int(str): surrounding whitespace is ignored, then an optional sign and
\* one or more decimal digits; anything else raises ValueError
RECURSIVE str_lstrip(_)
str_lstrip(s) == IF s # <<>> /\ Head(s) = " " THEN str_lstrip(Tail(s)) ELSE s

RECURSIVE str_rstrip(_)
str_rstrip(s) ==
    IF s # <<>> /\ s[Len(s)] = " " THEN str_rstrip(SubSeq(s, 1, Len(s) - 1)) ELSE s

DigitValue(c) == (CHOOSE i \in 1..Len(DIGITS) : DIGITS[i] = c) - 1

RECURSIVE DigitsValue(_)
DigitsValue(d) ==
    IF d = <<>> THEN 0
    ELSE 10 * DigitsValue(SubSeq(d, 1, Len(d) - 1)) + DigitValue(d[Len(d)])

IsDigits(d) == d # <<>> /\ \A i \in 1..Len(d) : \E k \in 1..Len(DIGITS) : DIGITS[k] = d[i]

int(arg) ==
    LET t == str_rstrip(str_lstrip(arg))
        signed == t # <<>> /\ Head(t) \in {"+", "-"}
        digits == IF signed THEN Tail(t) ELSE t
    IN IF ~IsDigits(digits) THEN [ok |-> FALSE, value |-> 0]
       ELSE [ok |-> TRUE,
             value |-> IF signed /\ Head(t) = "-" THEN -DigitsValue(digits)
                       ELSE DigitsValue(digits)]

----------------------------------------------------------------------------
(* One pass of the rules over the document.  A rule's apply is called once *)
(* per pass; what it reported before raising stays reported.               *)

RuleOrder ==
    <<"RequiredRobotFileSuffxAndFolder", "RequirdNoCurdirInImporting",
      "RequiredAutherInfo", "PeriodInSuiteName", "InvalidTable",
      "DuplicateKeywordNames", "DuplicateTestNames", "RequireSuiteDocumentation",
      "TooManyTestCases">>

AllRules == {RuleOrder[k] : k \in 1..Len(RuleOrder)}

Call(rule, result) ==
    /\ rule \notin applied
    /\ applied' = applied \cup {rule}
    /\ findings' = findings \o result.out
    /\ raised' = result.raised
    /\ UNCHANGED <<suite, runs, cur, keys>>

\* the rules before `rule` in the rule set, and only they, were applied
InOrder(rule) ==
    \E k \in 1..Len(RuleOrder) :
        RuleOrder[k] = rule /\ applied = {RuleOrder[j] : j \in 1..(k - 1)}

ApplyRequiredRobotFileSuffxAndFolder ==
    /\ Call("RequiredRobotFileSuffxAndFolder", RequiredRobotFileSuffxAndFolder_apply(suite))
    /\ UNCHANGED max_allowed

ApplyRequirdNoCurdirInImporting ==
    /\ Call("RequirdNoCurdirInImporting", RequirdNoCurdirInImporting_apply(suite))
    /\ UNCHANGED max_allowed

ApplyRequiredAutherInfo ==
    /\ Call("RequiredAutherInfo", RequiredAutherInfo_apply(suite))
    /\ UNCHANGED max_allowed

ApplyPeriodInSuiteName ==
    /\ Call("PeriodInSuiteName", PeriodInSuiteName_apply(suite))
    /\ UNCHANGED max_allowed

ApplyInvalidTable ==
    /\ Call("InvalidTable", InvalidTable_apply(suite))
    /\ UNCHANGED max_allowed

ApplyDuplicateKeywordNames ==
    /\ Call("DuplicateKeywordNames", DuplicateKeywordNames_apply(suite))
    /\ UNCHANGED max_allowed

ApplyDuplicateTestNames ==
    /\ Call("DuplicateTestNames", DuplicateTestNames_apply(suite))
    /\ UNCHANGED max_allowed

ApplyRequireSuiteDocumentation ==
    /\ Call("RequireSuiteDocumentation", RequireSuiteDocumentation_apply(suite))
    /\ UNCHANGED max_allowed

\* an apply that consumes its threshold
ApplyTooManyTestCases_lowers_threshold ==
    /\ Call("TooManyTestCases", TooManyTestCases_apply(suite, max_allowed))
    /\ max_allowed' = max_allowed - 1

ApplyTooManyTestCases ==
    /\ Call("TooManyTestCases", TooManyTestCases_apply(suite, max_allowed))
    /\ UNCHANGED max_allowed

\* a configure that resets to the default when int() fails
configure_falls_back_to_default(arg) ==
    /\ raised' = IF int(arg).ok THEN "none" ELSE "ValueError"
    /\ max_allowed' = IF int(arg).ok THEN int(arg).value ELSE DefaultMaxAllowed
    /\ UNCHANGED <<suite, findings, applied, runs, cur, keys>>

\* TooManyTestCases.configure(max_allowed)
configure(arg) ==
    /\ raised' = IF int(arg).ok THEN "none" ELSE "ValueError"
    /\ max_allowed' = IF int(arg).ok THEN int(arg).value ELSE max_allowed
    /\ UNCHANGED <<suite, findings, applied, runs, cur, keys>>

\* configuration is applied before the passes start
BeforeRun == applied = {} /\ runs = <<>>

\* all rules were applied: the pass ends and its findings are collected
FinishPass ==
    /\ applied = AllRules
    /\ Len(runs) < MaxRuns
    /\ runs' = Append(runs, findings)
    /\ findings' = <<>>
    /\ applied' = {}
    /\ raised' = "none"
    /\ UNCHANGED <<suite, max_allowed, cur, keys>>

\* key = normalize_name(name)
Normalize ==
    /\ keys = <<>>
    /\ keys' = <<normalize_name(cur)>>
    /\ UNCHANGED <<suite, max_allowed, findings, raised, applied, runs, cur>>

\* normalize_name(key): the function applied to its own result
NormalizeKey ==
    /\ Len(keys) = 1
    /\ keys' = Append(keys, normalize_name(keys[1]))
    /\ UNCHANGED <<suite, max_allowed, findings, raised, applied, runs, cur>>

----------------------------------------------------------------------------
(* Inputs *)

n_Foo == <<"F", "o", "o">>
n_foo_bar == <<"f", "o", "o", "_", "b", "a", "r">>
n_FOO == <<"F", "O", "O">>
n_f_oo == <<"f", " ", "o", "o">>
n_Foo_Bar == <<"F", "o", "o", " ", "B", "a", "r">>
n_Smoke_Test == <<"S", "m", "o", "k", "e", " ", "T", "e", "s", "t">>
n_smoke_test == <<"s", "m", "o", "k", "e", "_", "t", "e", "s", "t">>
n_SmokeTest == <<"S", "m", "o", "k", "e", "T", "e", "s", "t">>
c_Documentation == <<"D", "o", "c", "u", "m", "e", "n", "t", "a", "t", "i", "o", "n">>
c_Documentations == <<"D", "o", "c", "u", "m", "e", "n", "t", "a", "t", "i", "o", "n", "s">>
c_does_X == <<"d", "o", "e", "s", " ", "X">>
c_Library == <<"L", "i", "b", "r", "a", "r", "y">>
c_Collections == <<"C", "o", "l", "l", "e", "c", "t", "i", "o", "n", "s">>
c_Test_Template == <<"T", "e", "s", "t", " ", "T", "e", "m", "p", "l", "a", "t", "e">>
c_TEST_TEMPLATE == <<"T", "E", "S", "T", " ", "T", "E", "M", "P", "L", "A", "T", "E">>
c_TestTemplate == <<"T", "e", "s", "t", "T", "e", "m", "p", "l", "a", "t", "e">>
c_Run == <<"R", "u", "n">>
c_curdir_path == <<"$", "{", "C", "U", "R", "D", "I", "R", "}", "/", ".", ".", "/", "a", ".", "r", "o", "b", "o", "t">>
c_plain_path == <<"a", ".", "r", "o", "b", "o", "t">>
c_Modified == <<"M", "o", "d", "i", "f", "i", "e", "d", ":", " ", "1", "/", "1", "/", "2", "0", "2", "0", " ", "J", "a", "n", "e", " ", "D", "o", "e">>
c_Filename == <<"F", "i", "l", "e", "n", "a", "m", "e">>
c_Team == <<"T", "e", "a", "m", " ", "X">>
c_EMail == <<"E", "-", "M", "a", "i", "l", ":", " ", "x", "@", "y">>
t_Setting == <<"S", "e", "t", "t", "i", "n", "g">>
t_Settings == <<"S", "e", "t", "t", "i", "n", "g", "s">>
t_SETTINGS == <<"S", "E", "T", "T", "I", "N", "G", "S">>
t_Test_Cases == <<"T", "e", "s", "t", " ", "C", "a", "s", "e", "s">>
t_Keywords == <<"K", "e", "y", "w", "o", "r", "d", "s">>
t_Configuration == <<"C", "o", "n", "f", "i", "g", "u", "r", "a", "t", "i", "o", "n">>
t_Settingss == <<"S", "e", "t", "t", "i", "n", "g", "s", "s">>
t_xSettings == <<"M", "y", " ", "S", "e", "t", "t", "i", "n", "g", "s">>
t_TestCases == <<"T", "e", "s", "t", "C", "a", "s", "e", "s">>
t_user_keyword == <<"u", "s", "e", "r", " ", "k", "e", "y", "w", "o", "r", "d">>
t_Metadata == <<"M", "e", "t", "a", "d", "a", "t", "a">>
t_Variables == <<"V", "a", "r", "i", "a", "b", "l", "e", "s">>
p_good == <<"/", "w", "/", "5", "G", "C", "0", "0", "0", "1", "6", "5", "/", "a", ".", "r", "o", "b", "o", "t">>
p_nosuffix == <<"/", "w", "/", "5", "G", "C", "0", "0", "0", "1", "6", "5", "/", "a", ".", "t", "x", "t">>
sn_plain == <<"a">>
sn_period == <<"a", ".", "b">>
a_2 == <<"2">>
a_0 == <<"0">>
a_neg1 == <<"-", "1">>
a_abc == <<"a", "b", "c">>
a_empty == <<>>
a_float == <<"1", ".", "5">>
a_dash == <<"-">>

c_Resource == <<"R", "e", "s", "o", "u", "r", "c", "e">>
c_resource == <<"r", "e", "s", "o", "u", "r", "c", "e">>

Kinds == {"SettingTable", "Table"}

\* tables named after their kind: settings tables with rows drawn from
\* settingPool, other tables with rows drawn from otherPool
KindTables(settingPool, otherPool, maxRows) ==
    TableShapes({"SettingTable"}, {t_Settings}, settingPool, maxRows)
    \cup TableShapes({"Table"}, {t_Keywords}, otherPool, maxRows)

InitRules(suites) ==
    /\ suite \in suites
    /\ max_allowed = DefaultMaxAllowed
    /\ findings = <<>>
    /\ raised = "none"
    /\ applied = {}
    /\ runs = <<>>
    /\ cur = <<>>
    /\ keys = <<>>

FindingsOf(rule) == SelectSeq(findings, LAMBDA f : f.rule = rule)

----------------------------------------------------------------------------
(* Specification of the name normalizer: a name is normalized, then the   *)
(* key is normalized again.                                                *)

NormChars == {"a", "A", "b", " ", "_"}

NormNames ==
    SeqsUpTo(NormChars, MaxNameLen) \cup {n_Smoke_Test, n_smoke_test, n_SmokeTest}

EmptySuite == LayoutSuite(p_good, sn_plain, <<>>, <<>>, <<>>)

InitNorm ==
    /\ suite = EmptySuite
    /\ max_allowed = DefaultMaxAllowed
    /\ findings = <<>>
    /\ raised = "none"
    /\ applied = {}
    /\ runs = <<>>
    /\ cur \in NormNames
    /\ keys = <<>>

NextNorm == Normalize \/ NormalizeKey

SpecNorm == InitNorm /\ [][NextNorm]_vars

IsSeparator(c) == c \in {" ", "_"}

\* the same character, or the two cases of one letter
SameLetter(c, d) ==
    c = d \/ \E i \in 1..Len(UPPERCASE) : {c, d} = {UPPERCASE[i], LOWERCASE[i]}

\* x and y differ only in letter case and in spaces and underscores
RECURSIVE SameModuloCaseAndSeparators(_, _)
SameModuloCaseAndSeparators(x, y) ==
    IF x # <<>> /\ IsSeparator(Head(x)) THEN SameModuloCaseAndSeparators(Tail(x), y)
    ELSE IF y # <<>> /\ IsSeparator(Head(y)) THEN SameModuloCaseAndSeparators(x, Tail(y))
    ELSE IF x = <<>> \/ y = <<>> THEN x = y
    ELSE SameLetter(Head(x), Head(y)) /\ SameModuloCaseAndSeparators(Tail(x), Tail(y))

\* the names one edit away from n: one letter in the other case, one
\* separator exchanged for the other, one separator inserted or removed
OneEditVariants(n) ==
    UNION {{[n EXCEPT ![i] = d] : d \in {c \in NormChars : SameLetter(c, n[i])}} :
           i \in 1..Len(n)}
    \cup {[n EXCEPT ![i] = d] : i \in {j \in 1..Len(n) : IsSeparator(n[j])}, d \in {" ", "_"}}
    \cup {SubSeq(n, 1, i) \o <<d>> \o SubSeq(n, i + 1, Len(n)) : i \in 0..Len(n), d \in {" ", "_"}}
    \cup {SubSeq(n, 1, i - 1) \o SubSeq(n, i + 1, Len(n)) : i \in {j \in 1..Len(n) : IsSeparator(n[j])}}

\* C7: once a name is normalized, every name that differs from it by one
\* change of letter case or by one space or underscore exchanged, inserted
\* or removed has the same key; a name of the input set has the same key
\* exactly when it differs from the name only in letter case and in spaces
\* and underscores; the key itself is the name without separators and
\* without upper-case letters; and normalizing the key gives the key again.
C7_NormalizeName ==
    /\ Len(keys) >= 1 =>
        /\ \A v \in OneEditVariants(cur) : normalize_name(v) = keys[1]
        /\ \A y \in NormNames :
               (normalize_name(y) = keys[1]) <=> SameModuloCaseAndSeparators(cur, y)
        /\ SameModuloCaseAndSeparators(cur, keys[1])
        /\ \A i \in 1..Len(keys[1]) :
               ~IsSeparator(keys[1][i]) /\ \A k \in 1..Len(UPPERCASE) : keys[1][i] # UPPERCASE[k]
    /\ Len(keys) = 2 => keys[2] = keys[1]

C7_Witness ==
    /\ cur = n_Smoke_Test
    /\ keys = << <<"s", "m", "o", "k", "e", "t", "e", "s", "t">>,
                 <<"s", "m", "o", "k", "e", "t", "e", "s", "t">> >>

----------------------------------------------------------------------------
(* Specification of duplicate detection: documents with up to MaxKeywords *)
(* keywords and MaxTestNames test cases, one pass of the two rules.        *)

MaxTestNames == 2

KeywordNamePool == {n_Foo, n_foo_bar, n_FOO, n_f_oo, n_Foo_Bar}
TestNamePool == {n_Smoke_Test, n_smoke_test}

SuitesDup(maxKeywords, maxTests) ==
    {LayoutSuite(p_good, sn_plain, <<>>, kw, tc) :
        kw \in SeqsUpTo(KeywordNamePool, maxKeywords),
        tc \in SeqsUpTo(TestNamePool, maxTests)}

InitDup == InitRules(SuitesDup(MaxKeywords, MaxTestNames))

NextDup == ApplyDuplicateKeywordNames \/ ApplyDuplicateTestNames

SpecDup == InitDup /\ [][NextDup]_vars

Indices(seq) == [i \in 1..Len(seq) |-> i]

\* the entries whose name equals, up to letter case, spaces and
\* underscores, the name of an earlier entry, in order
LaterOccurrences(items) ==
    SelectSeq(Indices(items),
              LAMBDA i : \E j \in 1..(i - 1) :
                  SameModuloCaseAndSeparators(items[i].name, items[j].name))

\* C1: after DuplicateKeywordNames.apply, its findings are, in order, one
\* per keyword whose normalized name equals that of an earlier keyword,
\* each with that later keyword's line number and name; a first occurrence
\* gives no finding.
C1_DuplicateKeywords ==
    "DuplicateKeywordNames" \in applied =>
        LET later == LaterOccurrences(suite.keywords)
            f == FindingsOf("DuplicateKeywordNames")
        IN /\ Len(f) = Len(later)
           /\ \A k \in 1..Len(f) :
                  /\ f[k].linenumber = suite.keywords[later[k]].linenumber
                  /\ f[k].name = suite.keywords[later[k]].name

\* ["Foo", "foo_bar", "FOO"]: exactly one finding, at the third entry's line
C1_Witness ==
    /\ "DuplicateKeywordNames" \in applied
    /\ Len(suite.keywords) = 3
    /\ suite.keywords[1].name = n_Foo
    /\ suite.keywords[2].name = n_foo_bar
    /\ suite.keywords[3].name = n_FOO
    /\ Len(FindingsOf("DuplicateKeywordNames")) = 1
    /\ FindingsOf("DuplicateKeywordNames")[1].linenumber = suite.keywords[3].linenumber
    /\ suite.keywords[3].linenumber # suite.keywords[1].linenumber

----------------------------------------------------------------------------
(* Specification of table-header validation: documents with up to         *)
(* MaxTables tables of any kind and header name, one pass of InvalidTable. *)

HeaderNamePool ==
    {t_Setting, t_SETTINGS, t_Test_Cases, t_Keywords, t_Configuration, t_Settingss,
     t_xSettings, t_TestCases, t_user_keyword, t_Metadata, t_Variables}

SuitesTables(maxTables) ==
    {LayoutSuite(p_good, sn_plain, shapes, <<>>, <<>>) :
        shapes \in SeqsUpTo(TableShapes(Kinds, HeaderNamePool, {}, 0), maxTables)}

InitTables == InitRules(SuitesTables(MaxTables))

NextTables == ApplyInvalidTable

SpecTables == InitTables /\ [][NextTables]_vars

\* the recognized header forms, in lower case
RecognizedHeaders ==
    {<<"s", "e", "t", "t", "i", "n", "g">>,
     <<"s", "e", "t", "t", "i", "n", "g", "s">>,
     <<"m", "e", "t", "a", "d", "a", "t", "a">>,
     <<"c", "a", "s", "e">>,
     <<"c", "a", "s", "e", "s">>,
     <<"t", "e", "s", "t", " ", "c", "a", "s", "e">>,
     <<"t", "e", "s", "t", " ", "c", "a", "s", "e", "s">>,
     <<"k", "e", "y", "w", "o", "r", "d">>,
     <<"k", "e", "y", "w", "o", "r", "d", "s">>,
     <<"u", "s", "e", "r", " ", "k", "e", "y", "w", "o", "r", "d">>,
     <<"u", "s", "e", "r", " ", "k", "e", "y", "w", "o", "r", "d", "s">>,
     <<"v", "a", "r", "i", "a", "b", "l", "e">>,
     <<"v", "a", "r", "i", "a", "b", "l", "e", "s">>}

UnknownTables(tables) ==
    SelectSeq(Indices(tables),
              LAMBDA i : str_lower(tables[i].name) \notin RecognizedHeaders)

\* C6: after InvalidTable.apply, its findings are, in table order, one per
\* table whose header name is not, ignoring letter case, one of the
\* recognized forms, each at that table's header line; the number of
\* findings is the number of such tables.
C6_InvalidTable ==
    "InvalidTable" \in applied =>
        LET unknown == UnknownTables(suite.tables)
            f == FindingsOf("InvalidTable")
        IN /\ Len(f) = Len(unknown)
           /\ \A k \in 1..Len(f) :
                  /\ f[k].linenumber = suite.tables[unknown[k]].linenumber
                  /\ f[k].name = suite.tables[unknown[k]].name

\* "Test Cases" gives no finding, "Configuration" after it gives one
C6_Witness ==
    /\ "InvalidTable" \in applied
    /\ Len(suite.tables) = 2
    /\ suite.tables[1].name = t_Test_Cases
    /\ suite.tables[2].name = t_Configuration
    /\ Len(findings) = 1
    /\ findings[1].linenumber = suite.tables[2].linenumber
    /\ findings[1].linenumber # suite.tables[1].linenumber

----------------------------------------------------------------------------
(* Specification of the documentation check: documents with up to         *)
(* MaxTables tables of up to MaxRows rows, one pass of                     *)
(* RequireSuiteDocumentation.                                              *)

DocRowPool ==
    {<<c_Documentation, c_does_X>>, <<c_Library, c_Documentation>>, <<c_Documentations>>}

SuitesDoc(maxTables, maxRows) ==
    {LayoutSuite(p_good, sn_plain, shapes, <<>>, <<>>) :
        shapes \in SeqsUpTo(KindTables(DocRowPool, {<<c_Documentation, c_does_X>>}, maxRows),
                             maxTables)}

InitDoc == InitRules(SuitesDoc(MaxTables, MaxRows))

NextDoc == ApplyRequireSuiteDocumentation

SpecDoc == InitDoc /\ [][NextDoc]_vars

SettingTableIndices(tables) ==
    {i \in 1..Len(tables) : tables[i].kind = "SettingTable"}

\* some row of some settings table has `word` as its first cell, ignoring case
HasFirstCell(tables, word) ==
    \E i \in SettingTableIndices(tables) : \E k \in 1..Len(tables[i].rows) :
        /\ Len(tables[i].rows[k].cells) >= 1
        /\ Len(tables[i].rows[k].cells[1]) = Len(word)
        /\ \A n \in 1..Len(word) : SameLetter(tables[i].rows[k].cells[1][n], word[n])

\* C4: after RequireSuiteDocumentation.apply there is no finding when some
\* row of some settings table has the first cell "documentation" (in any
\* letter case); otherwise there is exactly one, one line below the header
\* of the first settings table, or at line 1 without a settings table.
C4_SuiteDocumentation ==
    "RequireSuiteDocumentation" \in applied =>
        LET st == SettingTableIndices(suite.tables) IN
        IF HasFirstCell(suite.tables, s_documentation)
        THEN findings = <<>>
        ELSE /\ Len(findings) = 1
             /\ findings[1].rule = "RequireSuiteDocumentation"
             /\ findings[1].linenumber =
                    IF st = {} THEN 1
                    ELSE suite.tables[CHOOSE i \in st : \A j \in st : i <= j].linenumber + 1

\* two settings tables after another table, neither with documentation:
\* one finding, one line below the first settings table's header
C4_Witness ==
    /\ "RequireSuiteDocumentation" \in applied
    /\ Len(suite.tables) = 2
    /\ suite.tables[1].kind = "Table"
    /\ Len(suite.tables[1].rows) = 2
    /\ suite.tables[1].rows[1].cells = <<c_Documentation, c_does_X>>
    /\ suite.tables[2].kind = "SettingTable"
    /\ Len(suite.tables[2].rows) = 1
    /\ suite.tables[2].rows[1].cells = <<c_Library, c_Documentation>>
    /\ Len(findings) = 1
    /\ findings[1].linenumber = 5

----------------------------------------------------------------------------
(* Specification of the import check: documents with up to MaxTables      *)
(* tables of up to MaxRows rows, one pass of RequirdNoCurdirInImporting.   *)

CurdirRowPool ==
    {<<c_Resource, c_curdir_path>>, <<c_Resource, c_plain_path>>,
     <<c_resource, c_curdir_path>>, <<c_Library, c_curdir_path>>, <<c_Resource>>}

SuitesCurdir(maxTables, maxRows) ==
    {LayoutSuite(p_good, sn_plain, shapes, <<>>, <<>>) :
        shapes \in SeqsUpTo(KindTables(CurdirRowPool, CurdirRowPool, maxRows), maxTables)}

InitCurdir == InitRules(SuitesCurdir(MaxTables, MaxRows))

NextCurdir == ApplyRequirdNoCurdirInImporting

SpecCurdir == InitCurdir /\ [][NextCurdir]_vars

\* the line numbers of the settings-table rows whose first cell is
\* "Resource" and whose second cell holds ${CURDIR}, in document order
RECURSIVE CurdirImportLines(_, _)
CurdirImportLines(rows, i) ==
    IF i > Len(rows) THEN <<>>
    ELSE (IF /\ Len(rows[i].cells) >= 2
             /\ rows[i].cells[1] = c_Resource
             /\ str_contains(s_CURDIR, rows[i].cells[2])
          THEN <<rows[i].linenumber>> ELSE <<>>)
         \o CurdirImportLines(rows, i + 1)

\* the rows of the settings tables, in document order
RECURSIVE RowsOfSettingTables(_, _)
RowsOfSettingTables(tables, i) ==
    IF i > Len(tables) THEN <<>>
    ELSE (IF tables[i].kind = "SettingTable" THEN tables[i].rows ELSE <<>>)
         \o RowsOfSettingTables(tables, i + 1)

\* C8: after RequirdNoCurdirInImporting.apply, its findings are exactly one
\* per settings-table row whose first cell is "Resource" and whose second
\* cell contains ${CURDIR}, each at that row's line; no other row gives one.
C8_CurdirImports ==
    "RequirdNoCurdirInImporting" \in applied =>
        [k \in 1..Len(findings) |-> findings[k].linenumber]
            = CurdirImportLines(RowsOfSettingTables(suite.tables, 1), 1)

----------------------------------------------------------------------------
(* Specification of the author/contact check: documents with up to        *)
(* MaxTables tables of up to MaxRows rows, one pass of RequiredAutherInfo. *)

AuthorRowPool ==
    {<<c_Modified>>, <<c_Library, c_Collections>>, <<c_Library, c_Team>>,
     <<c_Filename, c_EMail>>}

SuitesAuthor(maxTables, maxRows) ==
    {LayoutSuite(p_good, sn_plain, shapes, <<>>, <<>>) :
        shapes \in SeqsUpTo(KindTables(AuthorRowPool, {<<c_Modified>>}, maxRows), maxTables)}

InitAuthor == InitRules(SuitesAuthor(MaxTables, MaxRows))

NextAuthor == ApplyRequiredAutherInfo

SpecAuthor == InitAuthor /\ [][NextAuthor]_vars

\* some cell of some settings-table row of the document holds a token
DocumentMentions(tables, tokens) ==
    \E i \in SettingTableIndices(tables) : \E k \in 1..Len(tables[i].rows) :
        \E j \in 1..Len(tables[i].rows[k].cells) : \E t \in tokens :
            str_contains(t, str_lower(tables[i].rows[k].cells[j]))

CountOf(text) == Len(SelectSeq(findings, LAMBDA f : f.text = text))

\* C3: after RequiredAutherInfo.apply, "Author name is needed" is reported
\* once when no cell of any settings-table row of the document holds an
\* author token and not at all otherwise; likewise "Contact list is needed"
\* for the contact tokens; every finding is at line 1.
C3_AuthorContact ==
    "RequiredAutherInfo" \in applied =>
        /\ CountOf("Author name is needed")
               = (IF DocumentMentions(suite.tables, {s_author, s_name, s_modified}) THEN 0 ELSE 1)
        /\ CountOf("Contact list is needed")
               = (IF DocumentMentions(suite.tables, {s_contact, s_mail, s_team}) THEN 0 ELSE 1)
        /\ \A k \in 1..Len(findings) : findings[k].linenumber = 1

----------------------------------------------------------------------------
(* Specification of the test-count check: documents with up to MaxTables  *)
(* tables and with few test cases or about DefaultMaxAllowed of them; the *)
(* rule is configured any number of times, then applied once.             *)

a_plus2 == <<"+", "2">>
a_spaced2 == <<" ", "2", " ">>

\* settings tables with a template row first, with one in upper case
\* after another row, with near misses only, and without rows; another
\* table with a template row
TemplateTablePool ==
    {[kind |-> "SettingTable", name |-> t_Settings,
      rows |-> << <<c_Test_Template, c_Run>> >>],
     [kind |-> "SettingTable", name |-> t_Settings,
      rows |-> << <<c_Library, c_Test_Template>>, <<c_TEST_TEMPLATE>> >>],
     [kind |-> "SettingTable", name |-> t_Settings,
      rows |-> << <<c_Library, c_Test_Template>>, <<c_TestTemplate, c_Run>> >>],
     [kind |-> "SettingTable", name |-> t_Settings, rows |-> <<>>],
     [kind |-> "Table", name |-> t_Keywords,
      rows |-> << <<c_Test_Template, c_Run>> >>]}

TestCounts(maxTests) == 0..maxTests \cup {DefaultMaxAllowed, DefaultMaxAllowed + 1}

SuitesTooMany(maxTables, maxTests) ==
    {LayoutSuite(p_good, sn_plain, shapes, <<>>, [i \in 1..n |-> n_Foo]) :
        shapes \in SeqsUpTo(TemplateTablePool, maxTables),
        n \in TestCounts(maxTests)}

\* arguments int() accepts, with their values, and arguments it rejects
NumericArgs == {<<a_2, 2>>, <<a_plus2, 2>>, <<a_spaced2, 2>>, <<a_0, 0>>, <<a_neg1, -1>>}
NonNumericArgs == {a_abc, a_empty, a_float, a_dash}
ConfigureArgs == {p[1] : p \in NumericArgs} \cup NonNumericArgs

Configure == \E arg \in ConfigureArgs : BeforeRun /\ configure(arg)

InitTooMany == InitRules(SuitesTooMany(MaxTables, MaxTests))

NextTooMany == Configure \/ ApplyTooManyTestCases

SpecTooMany == InitTooMany /\ [][NextTooMany]_vars

\* C2: without a "test template" row in a settings table, after
\* TooManyTestCases.apply there is exactly one finding when the number of
\* test cases exceeds max_allowed, giving the two counts and (for
\* max_allowed >= 0) anchored at the test case at index max_allowed, and
\* there is none when the number is at most max_allowed.
C2_TooManyTestCases ==
    ("TooManyTestCases" \in applied /\ ~HasFirstCell(suite.tables, s_test_template)) =>
        IF Len(suite.testcases) > max_allowed
        THEN /\ Len(findings) = 1
             /\ findings[1].counts = <<Len(suite.testcases), max_allowed>>
             /\ max_allowed >= 0 =>
                    findings[1].linenumber = suite.testcases[max_allowed + 1].linenumber
        ELSE findings = <<>>

\* C5: with a "test template" row (in any letter case) in some settings
\* table, TooManyTestCases.apply reports nothing and raises nothing, for
\* every number of test cases and every max_allowed.
C5_TemplateSilences ==
    ("TooManyTestCases" \in applied /\ HasFirstCell(suite.tables, s_test_template)) =>
        findings = <<>> /\ raised = "none"

\* eleven test cases, max_allowed -1, the template row in upper case as
\* the second row of the second settings table
C5_Witness ==
    /\ "TooManyTestCases" \in applied
    /\ Len(suite.testcases) = DefaultMaxAllowed + 1
    /\ max_allowed = -1
    /\ Len(suite.tables) = 2
    /\ suite.tables[1].kind = "SettingTable"
    /\ Len(suite.tables[1].rows) = 2
    /\ suite.tables[1].rows[2].cells = <<c_TestTemplate, c_Run>>
    /\ suite.tables[2].kind = "SettingTable"
    /\ Len(suite.tables[2].rows) = 2
    /\ suite.tables[2].rows[2].cells = <<c_TEST_TEMPLATE>>
    /\ findings = <<>>

\* C10: a configure call with a non-numeric argument raises and leaves
\* max_allowed as it was; a call with a numeric argument sets max_allowed
\* to the argument's integer value; apply reports against the max_allowed
\* left by the calls.
C10_Configure ==
    [][/\ \A arg \in NonNumericArgs :
              configure(arg) => raised' = "ValueError" /\ max_allowed' = max_allowed
       /\ \A p \in NumericArgs :
              configure(p[1]) => raised' = "none" /\ max_allowed' = p[2]
       /\ ApplyTooManyTestCases =>
              \A k \in 1..Len(findings') : findings'[k].counts[2] = max_allowed
      ]_vars

\* configured to 2, then a configure call that failed: still 2
C10_Witness ==
    /\ raised = "ValueError"
    /\ max_allowed = 2
    /\ applied = {}

----------------------------------------------------------------------------
(* Specification of whole passes: the rule is configured, then the nine   *)
(* rules are applied in order, MaxRuns times, to the same document.       *)

RunTablePool ==
    {[kind |-> "SettingTable", name |-> t_Settings,
      rows |-> << <<c_Documentation, c_does_X>>, <<c_Resource, c_curdir_path>> >>],
     [kind |-> "SettingTable", name |-> t_Setting,
      rows |-> << <<c_Modified>>, <<c_Resource>> >>],
     [kind |-> "SettingTable", name |-> t_Settings,
      rows |-> << <<c_Test_Template, c_Run>> >>],
     [kind |-> "Table", name |-> t_Configuration, rows |-> <<>>]}

SuitesRun(maxTables, maxTests) ==
    {LayoutSuite(p_nosuffix, sn_period, shapes, <<n_Foo, n_FOO>>, tc) :
        shapes \in SeqsUpTo(RunTablePool, maxTables),
        tc \in SeqsUpTo(TestNamePool, maxTests)}

InitRun == InitRules(SuitesRun(MaxTables, MaxTestNames))

NextRun ==
    \/ Configure
    \/ InOrder("RequiredRobotFileSuffxAndFolder") /\ ApplyRequiredRobotFileSuffxAndFolder
    \/ InOrder("RequirdNoCurdirInImporting") /\ ApplyRequirdNoCurdirInImporting
    \/ InOrder("RequiredAutherInfo") /\ ApplyRequiredAutherInfo
    \/ InOrder("PeriodInSuiteName") /\ ApplyPeriodInSuiteName
    \/ InOrder("InvalidTable") /\ ApplyInvalidTable
    \/ InOrder("DuplicateKeywordNames") /\ ApplyDuplicateKeywordNames
    \/ InOrder("DuplicateTestNames") /\ ApplyDuplicateTestNames
    \/ InOrder("RequireSuiteDocumentation") /\ ApplyRequireSuiteDocumentation
    \/ InOrder("TooManyTestCases") /\ ApplyTooManyTestCases
    \/ FinishPass

SpecRun == InitRun /\ [][NextRun]_vars

====
